---- MODULE Spec2Model ----
(***************************************************************************)
(* The chat core of ChatEpstein: the closure state of setup_rag_chain      *)
(* (src/chat/chatbot.py: message_store, doc_metadata, citations_metadata)  *)
(* and the /chat handler of src/chat/api.py that drives one turn through   *)
(* RunnableWithMessageHistory.                                             *)
(*                                                                         *)
(* A request r is a coroutine of the FastAPI application.  `chat` is an    *)
(* `async def` whose body contains no await: once the event loop starts    *)
(* it, it runs to its return or raise before any other request's handler   *)
(* is started.  Requests can be in flight together (pc = "pending"), their *)
(* handlers cannot interleave.                                             *)
(***************************************************************************)
EXTENDS Integers, Sequences, FiniteSets, TLC

\* ---------------------------------------------------------------- constants
MAX_SESSIONS == 50
HISTORY_KEEP == 4

ENTITY_DOCS_MAX == 8
GENERAL_DOCS == 8
PLAIN_DOCS == 16
TOP_DOCS == 8

\* ------------------------------------------------------------------- bounds
MaxReq == 2
MaxIds == 52
MaxTurns == 3
MaxCiteTurns == 2
MaxLinkTurns == 1
MaxLiveTurns == 1

Req == 1..MaxReq
SessionIds == 1..MaxIds

\* The first WarmTurns requests fill the store: one completed turn for each of
\* the session ids 1..MAX_SESSIONS, one after the other.  Every later request
\* is explored with all its inputs.
WarmTurns == MAX_SESSIONS

\* a later request is for the oldest session id or for the next unused one
ReuseIds == {1}
\* the session ids whose turns are explored with failing external calls
FaultIds == {1}

DocKeys == {"DOC-1, Page 1"}
\* the keys an answer may cite: those of the corpus and one of no document
MarkerKeys == DocKeys \cup {"DOC-999, Page 1"}
\* what the link of a passage meets: a presigned url, a passage without
\* s3_key, no S3 client or bucket, a presign call that raises
LinkOutcomes == {"ok", "no_key", "no_client", "raises"}
ErrorKinds == {"Reformulation", "Extraction", "Retrieval", "Rerank", "Generation"}
\* the external calls that go over the network: the two LLM calls and the
\* searches of the vector store
HangKinds == {"Reformulation", "Retrieval", "Generation"}

VARIABLES
    message_store,       \* chatbot.py:350  insertion-ordered dict, as a sequence
    doc_metadata,        \* chatbot.py:113  citation key -> url, shared by all turns
    citations_metadata,  \* chatbot.py:298  citation key -> url, shared by all turns
    req,                 \* the requests: position in the handler and its locals
    created,             \* number of ChatMessageHistory objects constructed so far
    evicted,             \* the sessions deleted so far, in deletion order
    log,                 \* per session id: every entry committed since it was (re)created
    recent,              \* the history object fetched by the latest get_session_history
    turns,               \* number of requests submitted so far
    used,                \* highest session id submitted so far
    call                 \* one call of a function of the chain, taken alone

vars == <<message_store, doc_metadata, citations_metadata, req, created,
          evicted, log, recent, turns, used, call>>

\* ------------------------------------------------------------------ helpers
EmptyDict == [k \in {} |-> "N/A"]

Max(a, b) == IF a >= b THEN a ELSE b

Range(s) == {s[i] : i \in 1..Len(s)}

\* keys of the dict message_store
StoreKeys(store) == {store[i].session_id : i \in 1..Len(store)}

\* message_store[session_id]
StoreGet(store, sid) == store[CHOOSE i \in 1..Len(store) : store[i].session_id = sid]

\* del message_store[session_id] (the key is present)
StoreDel(store, sid) == SelectSeq(store, LAMBDA e : e.session_id # sid)

\* message_store[session_id] = ChatMessageHistory(): a new key goes last
StorePut(store, sid, born) ==
    Append(store, [session_id |-> sid, born |-> born, messages |-> <<>>])

\* len(message_store) >= MAX_SESSIONS
AtCapacityOff(store) == Len(store) > MAX_SESSIONS
AtCapacity(store) == Len(store) >= MAX_SESSIONS

\* next(iter(message_store)): the first key in insertion order
OldestSessionNewest(store) == store[Len(store)].session_id
OldestSession(store) == store[1].session_id

\* history.messages[-4:]
LastMessagesFirst(msgs) ==
    IF Len(msgs) <= HISTORY_KEEP THEN msgs ELSE SubSeq(msgs, 1, HISTORY_KEEP)
LastMessagesAll(msgs) == msgs
LastMessages(msgs) ==
    IF Len(msgs) <= HISTORY_KEEP THEN msgs
    ELSE SubSeq(msgs, Len(msgs) - HISTORY_KEEP + 1, Len(msgs))

\* history.messages = history.messages[-4:] on the object stored under sid
StoreTruncate(store, sid) ==
    [i \in 1..Len(store) |->
        IF store[i].session_id = sid
        THEN [store[i] EXCEPT !.messages = LastMessages(@)]
        ELSE store[i]]

\* hist.add_messages(...) on the history object `born`; an object that is no
\* longer in the dict takes the messages with it
StoreAddDetached(store, born, entries) == store
StoreAdd(store, born, entries) ==
    [i \in 1..Len(store) |->
        IF store[i].born = born
        THEN [store[i] EXCEPT !.messages = @ \o entries]
        ELSE store[i]]

\* dict.clear()
ClearedKept(d) == d
Cleared(d) == EmptyDict

\* d[k] = v for every k of `upd` (later assignments override)
DictUpdate(d, upd) ==
    [k \in (DOMAIN d) \cup (DOMAIN upd) |-> IF k \in DOMAIN upd THEN upd[k] ELSE d[k]]

\* unique citations in order of first appearance (chatbot.py:316-322)
UniqueOff(s) == s
RECURSIVE Unique(_)
Unique(s) ==
    IF s = <<>> THEN <<>>
    ELSE LET rest == Unique(SubSeq(s, 1, Len(s) - 1))
             x == s[Len(s)]
         IN IF x \in Range(rest) THEN rest ELSE Append(rest, x)

\* the keys of unique_citations found in doc_metadata, in order
ResolvedUnguarded(answer, index) == Unique(answer)
Resolved(answer, index) == SelectSeq(Unique(answer), LAMBDA k : k \in DOMAIN index)

\* the string returned by append_sources: the answer, and the Sources section
\* when the answer holds a marker
SourcesOutput(answer, index) ==
    IF answer = <<>>
    THEN [text |-> answer, sources |-> <<>>, section |-> FALSE]
    ELSE [text |-> answer, sources |-> Resolved(answer, index), section |-> TRUE]

\* citations_metadata after append_sources
SourcesCitationsRetrieved(answer, index) == index
SourcesCitations(answer, index) ==
    IF answer = <<>> THEN EmptyDict
    ELSE [k \in Range(Resolved(answer, index)) |-> index[k]]

\* generate_presigned_url (chatbot.py:79-103): "N/A" without client, bucket
\* or key and when the presign call raises
GeneratePresignedUrlUncaught(link) ==
    IF link \in {"no_client", "no_key"} THEN "N/A"
    ELSE IF link = "raises" THEN "RAISE" ELSE "https://s3/doc"
GeneratePresignedUrl(link) ==
    IF link \in {"no_client", "no_key"} THEN "N/A"
    ELSE IF link = "raises" THEN "N/A" ELSE "https://s3/doc"

\* source_url = generate_presigned_url(s3_key) if s3_key else "N/A"
SourceUrl(link) == IF link = "no_key" THEN "N/A" ELSE GeneratePresignedUrl(link)

NoOutput == [text |-> <<>>, sources |-> <<>>, section |-> FALSE]

\* HumanMessage(content=input), AIMessage(content=output)
Human(text) == [role |-> "human", input |-> text, output |-> NoOutput]
AI(out) == [role |-> "ai", input |-> 0, output |-> out]

IdleReq ==
    [pc |-> "idle", session_id |-> 0, input |-> 0, oldest |-> 0, deleted |-> <<>>,
     made |-> FALSE, history |-> 0, chat_history |-> <<>>, rewritten |-> FALSE,
     question |-> 0, asked |-> 0, returned |-> NoOutput,
     reformulated_on |-> <<>>, answered_on |-> <<>>,
     steps |-> <<>>, links |-> EmptyDict, context |-> EmptyDict,
     answer |-> <<>>, output |-> NoOutput, citations |-> EmptyDict, status |-> 0,
     error |-> "", overlap |-> {}]

\* the messages RunnableWithMessageHistory puts under "chat_history": a copy
\* of history.messages as get_session_history left it (chatbot.py:384-389)
EnterHistoryTail(messages) == IF messages = <<>> THEN <<>> ELSE Tail(messages)
EnterHistory(messages) == messages

\* `if x.get("chat_history"):` (chatbot.py:237)
HasHistoryAlways(chat_history) == TRUE
HasHistory(chat_history) == chat_history # <<>>

\* the standalone question the reformulation call returns for the message
\* `input`: the message as it is, or another text (-input)
Contextualized(input, other) == IF other THEN 0 - input ELSE input

\* the {input} of qa_prompt (chatbot.py:153-157): the key "input" of the
\* invoke, which RunnablePassthrough.assign(context=get_docs) passes on
QaInputRewritten(input, question) == question
QaInput(input, question) == input

\* HumanMessage of the on_end listener: the value under input_messages_key
InputMessageRewritten(input, question) == Human(question)
InputMessage(input, question) == Human(input)

InFlight(r) == req[r].pc \notin {"idle", "done", "failed"}
Running(r) == req[r].pc \notin {"idle", "pending", "done", "failed"}

\* api.py:112-151: the coroutine has no await, so the loop starts a handler
\* only when no other handler is between its first and last statement
EventLoopFreeThreads(r) == TRUE
EventLoopFree(r) == \A q \in Req \ {r} : ~Running(q)

\* no function is taken alone
NoCall == [pc |-> "none"]

InitTurns ==
    /\ message_store = <<>>
    /\ doc_metadata = EmptyDict
    /\ citations_metadata = EmptyDict
    /\ req = [r \in Req |-> IdleReq]
    /\ created = 0
    /\ evicted = <<>>
    /\ log = [s \in SessionIds |-> <<>>]
    /\ recent = 0
    /\ turns = 0
    /\ used = 0

Init == InitTurns /\ call = NoCall

\* a function taken alone leaves the state of the turns as it is
TurnsUnchanged ==
    UNCHANGED <<message_store, doc_metadata, citations_metadata, req, created,
                evicted, log, recent, turns, used>>

\* ------------------------------------------------------------------ actions
Set(r, f, v) == [req EXCEPT ![r] = [@ EXCEPT ![f] = v]]

\* a request of the warm-up (see WarmTurns)
Warm(r) == req[r].input <= WarmTurns

\* POST /chat arrives: ChatRequest(message, session_id) (api.py:109-116).  The
\* message of the n-th request is the text n.  A request that has ended keeps
\* its record (the response) until the next request arrives or starts.
\* overlap: the requests that were in flight together with this one.
Submit(r, sid) ==
    /\ ~InFlight(r)
    /\ \A q \in Req : q < r => InFlight(q)
    /\ req' = [q \in Req |->
                IF q = r
                THEN [IdleReq EXCEPT !.pc = "pending", !.session_id = sid,
                                     !.input = turns + 1,
                                     !.overlap = {req[p].input : p \in {p \in Req : InFlight(p)}}]
                ELSE IF InFlight(q)
                     THEN [req[q] EXCEPT !.overlap = @ \cup {turns + 1}]
                     ELSE IdleReq]
    /\ turns' = turns + 1
    /\ used' = Max(used, sid)
    /\ UNCHANGED <<message_store, doc_metadata, citations_metadata, created,
                   evicted, log, recent, call>>

\* the event loop starts the handler; rag_chain.invoke enters
\* get_session_history with sessions_deleted = 0 (api.py:133-139, chatbot.py:357)
Start(r) ==
    /\ req[r].pc = "pending"
    /\ EventLoopFree(r)
    /\ req' = [q \in Req |->
                IF q = r THEN [req[r] EXCEPT !.pc = "gsh_while"]
                ELSE IF InFlight(q) THEN req[q] ELSE IdleReq]
    /\ UNCHANGED <<message_store, doc_metadata, citations_metadata, created,
                   evicted, log, recent, turns, used, call>>

\* session_id not in message_store and len(message_store) >= MAX_SESSIONS
\* (chatbot.py:358)
MustEvictSeen(session_id, store) == AtCapacity(store)
MustEvict(session_id, store) == session_id \notin StoreKeys(store) /\ AtCapacity(store)

\* the test of the while loop and oldest_session = next(iter(message_store))
\* (chatbot.py:358-359)
GshWhile(r) ==
    /\ req[r].pc = "gsh_while"
    /\ IF MustEvict(req[r].session_id, message_store)
       THEN req' = [req EXCEPT ![r] = [@ EXCEPT !.pc = "gsh_del",
                                                !.oldest = OldestSession(message_store)]]
       ELSE req' = Set(r, "pc", "gsh_fetch")
    /\ UNCHANGED <<message_store, doc_metadata, citations_metadata, created,
                   evicted, log, recent, turns, used, call>>

\* del message_store[oldest_session]; sessions_deleted += 1 (chatbot.py:360-361).
\* A key that is gone raises KeyError, which api.py:153 turns into a 500.
GshDelete(r) ==
    /\ req[r].pc = "gsh_del"
    /\ IF req[r].oldest \in StoreKeys(message_store)
       THEN LET victim == StoreGet(message_store, req[r].oldest)
            IN /\ message_store' = StoreDel(message_store, req[r].oldest)
               /\ req' = [req EXCEPT ![r] = [@ EXCEPT !.pc = "gsh_while",
                                                      !.deleted = Append(@, victim.born)]]
               /\ evicted' = Append(evicted, [born |-> victim.born,
                                              mru |-> victim.born = recent,
                                              by |-> req[r].input])
               /\ log' = [log EXCEPT ![req[r].oldest] = <<>>]
       ELSE /\ req' = [req EXCEPT ![r] = [@ EXCEPT !.pc = "failed", !.status = 500,
                                                   !.error = "KeyError"]]
            /\ UNCHANGED <<message_store, evicted, log>>
    /\ UNCHANGED <<doc_metadata, citations_metadata, created, recent, turns, used, call>>

\* create-or-fetch, truncate to the last 4 messages, return the history
\* (chatbot.py:368-381); RunnableWithMessageHistory copies its messages into
\* chat_history
GshFetch(r) ==
    /\ req[r].pc = "gsh_fetch"
    /\ LET sid == req[r].session_id
           fresh == sid \notin StoreKeys(message_store)
           s1 == IF fresh THEN StorePut(message_store, sid, created + 1)
                 ELSE message_store
           s2 == StoreTruncate(s1, sid)
           h == StoreGet(s2, sid)
       IN /\ message_store' = s2
          /\ created' = IF fresh THEN created + 1 ELSE created
          /\ recent' = h.born
          /\ req' = [req EXCEPT ![r] = [@ EXCEPT !.pc = "get_docs",
                                                 !.steps = Append(@, "history_fetch"),
                                                 !.made = fresh,
                                                 !.history = h.born,
                                                 !.chat_history = EnterHistory(h.messages)]]
    /\ UNCHANGED <<doc_metadata, citations_metadata, evicted, log, turns, used, call>>

\* get_docs: clear both dicts, then reformulate the question when there is
\* history (chatbot.py:232-240).  rewritten: contextualized_prompt is the
\* output of the reformulation call, not x["input"].  question:
\* contextualized_prompt, the query the retrieval runs on.  steps: the steps
\* of the turn that have finished, in order.  reformulated_on: the
\* chat_history the reformulation prompt was filled with.
GetDocs(r, other) ==
    /\ req[r].pc = "get_docs"
    /\ doc_metadata' = Cleared(doc_metadata)
    /\ citations_metadata' = Cleared(citations_metadata)
    /\ req' = [req EXCEPT ![r] =
                   [@ EXCEPT !.pc = "retrieve",
                             !.rewritten = HasHistory(req[r].chat_history),
                             !.question = IF HasHistory(req[r].chat_history)
                                          THEN Contextualized(req[r].input, other)
                                          ELSE req[r].input,
                             !.reformulated_on = IF HasHistory(req[r].chat_history)
                                                 THEN req[r].chat_history ELSE <<>>,
                             !.steps = IF HasHistory(req[r].chat_history)
                                       THEN Append(@, "reformulation") ELSE @]]
    /\ UNCHANGED <<message_store, created, evicted, log, recent, turns, used, call>>

\* entity_aware_retrieval and the grouping loop: doc_metadata gets one entry
\* per document block of the context, with the url of its link
\* (chatbot.py:243-295).  links: the blocks and what their links meet.  An
\* exception that leaves generate_presigned_url leaves invoke: a 500.
Retrieve(r, links) ==
    /\ req[r].pc = "retrieve"
    /\ LET index == [k \in DOMAIN links |-> SourceUrl(links[k])]
       IN IF \E k \in DOMAIN index : index[k] = "RAISE"
          THEN /\ req' = [req EXCEPT ![r] = [@ EXCEPT !.pc = "failed", !.status = 500,
                                                      !.links = links,
                                                      !.error = "LinkResolution"]]
               /\ UNCHANGED doc_metadata
          ELSE /\ doc_metadata' = DictUpdate(doc_metadata, index)
               /\ req' = [req EXCEPT ![r] = [@ EXCEPT !.pc = "generate", !.links = links,
                                                      !.steps = Append(@, "retrieval"),
                                                      !.context = index]]
    /\ UNCHANGED <<message_store, citations_metadata, created, evicted, log,
                   recent, turns, used, call>>

\* qa_prompt | llm | StrOutputParser (chatbot.py:348): the answer, as the
\* sequence of the citation keys of its markers.  answered_on: the
\* chat_history qa_prompt was filled with.
Generate(r, answer) ==
    /\ req[r].pc = "generate"
    /\ req' = [req EXCEPT ![r] = [@ EXCEPT !.pc = "append_sources",
                                           !.steps = Append(@, "generation"),
                                           !.asked = QaInput(req[r].input, req[r].question),
                                           !.answered_on = req[r].chat_history,
                                           !.answer = answer]]
    /\ UNCHANGED <<message_store, doc_metadata, citations_metadata, created,
                   evicted, log, recent, turns, used, call>>

FailKeepsInput(r, kind) ==
    /\ kind = "Generation"
    /\ req[r].pc = "generate"
    /\ message_store' = StoreAdd(message_store, req[r].history, <<Human(req[r].input)>>)
    /\ req' = [req EXCEPT ![r] = [@ EXCEPT !.pc = "failed", !.status = 500,
                                           !.error = kind]]
    /\ UNCHANGED <<doc_metadata, citations_metadata, created, evicted, log, recent,
                   turns, used, call>>

\* an external call raises: the reformulation LLM call (after the dicts were
\* cleared), spaCy, the vector store, the cross-encoder, or the answering LLM
\* call.  The exception leaves invoke and api.py:153-154 answers 500.
Fail(r, kind) ==
    /\ \/ /\ kind = "Reformulation"
          /\ req[r].pc = "get_docs"
          /\ HasHistory(req[r].chat_history)
          /\ doc_metadata' = Cleared(doc_metadata)
          /\ citations_metadata' = Cleared(citations_metadata)
       \/ /\ kind \in {"Extraction", "Retrieval", "Rerank"}
          /\ req[r].pc = "retrieve"
          /\ UNCHANGED <<doc_metadata, citations_metadata>>
       \/ /\ kind = "Generation"
          /\ req[r].pc = "generate"
          /\ UNCHANGED <<doc_metadata, citations_metadata>>
    /\ req' = [req EXCEPT ![r] = [@ EXCEPT !.pc = "failed", !.status = 500,
                                           !.error = kind]]
    /\ UNCHANGED <<message_store, created, evicted, log, recent, turns, used, call>>

\* an external call never returns.  The calls are made without a timeout
\* (chatbot.py:62-66, 178-202, 238) and the handler waits inside invoke
\* (api.py:136): no statement of the handler runs any more.
Hang(r, kind) ==
    /\ \/ /\ kind = "Reformulation"
          /\ req[r].pc = "get_docs"
          /\ HasHistory(req[r].chat_history)
          /\ doc_metadata' = Cleared(doc_metadata)
          /\ citations_metadata' = Cleared(citations_metadata)
       \/ /\ kind = "Retrieval"
          /\ req[r].pc = "retrieve"
          /\ UNCHANGED <<doc_metadata, citations_metadata>>
       \/ /\ kind = "Generation"
          /\ req[r].pc = "generate"
          /\ UNCHANGED <<doc_metadata, citations_metadata>>
    /\ req' = [req EXCEPT ![r] = [@ EXCEPT !.pc = "hung", !.error = kind]]
    /\ UNCHANGED <<message_store, created, evicted, log, recent, turns, used, call>>

\* append_sources (chatbot.py:301-342).  doc_metadata[citation_key] of a key
\* that is not in the dict raises KeyError, which api.py:153 turns into a 500.
AppendSources(r) ==
    /\ req[r].pc = "append_sources"
    /\ IF \A k \in Range(Resolved(req[r].answer, doc_metadata)) : k \in DOMAIN doc_metadata
       THEN /\ citations_metadata' =
                   DictUpdate(Cleared(citations_metadata),
                              SourcesCitations(req[r].answer, doc_metadata))
            /\ req' = [req EXCEPT ![r] =
                           [@ EXCEPT !.pc = "exit_history",
                                     !.steps = Append(@, "citation_extraction"),
                                     !.output = SourcesOutput(req[r].answer, doc_metadata)]]
       ELSE /\ citations_metadata' = Cleared(citations_metadata)
            /\ req' = [req EXCEPT ![r] = [@ EXCEPT !.pc = "failed", !.status = 500,
                                                   !.error = "KeyError"]]
    /\ UNCHANGED <<message_store, doc_metadata, created, evicted, log, recent,
                   turns, used, call>>

\* the on_end listener of RunnableWithMessageHistory (chatbot.py:384-389):
\* hist.add_messages([HumanMessage(input), AIMessage(output)])
ExitHistoryEarly(r) ==
    /\ req[r].pc = "append_sources"
    /\ LET pair == <<InputMessage(req[r].input, req[r].question), AI(req[r].output)>>
       IN /\ message_store' = StoreAdd(message_store, req[r].history, pair)
          /\ log' = [log EXCEPT ![req[r].session_id] = @ \o pair]
    /\ req' = [req EXCEPT ![r] = [@ EXCEPT !.steps = Append(@, "history_append"),
                                           !.pc = "respond"]]
    /\ UNCHANGED <<doc_metadata, citations_metadata, created, evicted, recent,
                   turns, used, call>>

ExitHistory(r) ==
    /\ req[r].pc = "exit_history"
    /\ LET pair == <<InputMessage(req[r].input, req[r].question), AI(req[r].output)>>
       IN /\ message_store' = StoreAdd(message_store, req[r].history, pair)
          /\ log' = [log EXCEPT ![req[r].session_id] = @ \o pair]
    /\ req' = [req EXCEPT ![r] = [@ EXCEPT !.steps = Append(@, "history_append"),
                                           !.pc = "respond"]]
    /\ UNCHANGED <<doc_metadata, citations_metadata, created, evicted, recent,
                   turns, used, call>>

\* current_citations = dict(citations_metadata); return ChatResponse(...)
\* (api.py:142-151)
Respond(r) ==
    /\ req[r].pc = "respond"
    /\ req' = [req EXCEPT ![r] = [@ EXCEPT !.pc = "done", !.status = 200,
                                           !.returned = req[r].output,
                                           !.citations = citations_metadata]]
    /\ UNCHANGED <<message_store, doc_metadata, citations_metadata, created,
                   evicted, log, recent, turns, used, call>>

\* ------------------------------------------------------------------- inputs
\* the blocks of a turn with their links: any outcome, or with and without key
LinkIndexes == UNION {[D -> LinkOutcomes] : D \in SUBSET DocKeys}
Indexes == UNION {[D -> {"ok", "no_key"}] : D \in SUBSET DocKeys}
Answers == {<<>>} \cup {<<k>> : k \in MarkerKeys}
PlainIndex == [k \in DocKeys |-> "ok"]
PlainAnswer == <<CHOOSE k \in DocKeys : TRUE>>

\* the session ids a request may carry
SubmitIds ==
    IF turns < WarmTurns THEN {used + 1}
    ELSE (ReuseIds \cup {used + 1}) \cap SessionIds

\* warm-up requests are sent one after the other
SubmitAllowed(r, cap) ==
    /\ turns < cap
    /\ turns < WarmTurns => \A q \in Req : ~InFlight(q)

Step(r, cap, indexes, answers, others) ==
    \/ \E sid \in SubmitIds : SubmitAllowed(r, cap) /\ Submit(r, sid)
    \/ Start(r)
    \/ GshWhile(r)
    \/ GshDelete(r)
    \/ GshFetch(r)
    \/ \E other \in (IF HasHistory(req[r].chat_history) THEN others ELSE {FALSE}) :
          GetDocs(r, other)
    \/ \E links \in (IF Warm(r) THEN {PlainIndex} ELSE indexes) : Retrieve(r, links)
    \/ \E answer \in (IF Warm(r) THEN {PlainAnswer} ELSE answers) : Generate(r, answer)
    \/ \E kind \in ErrorKinds :
          ~Warm(r) /\ req[r].session_id \in FaultIds /\ Fail(r, kind)
    \/ AppendSources(r)
    \/ ExitHistory(r)
    \/ Respond(r)

\* session histories: later requests explored over session ids and failures
Next == \E r \in Req : Step(r, WarmTurns + MaxTurns, {PlainIndex}, {PlainAnswer}, BOOLEAN)

Spec == Init /\ [][Next]_vars

\* citations: later requests explored over retrieved indexes and answers
NextCite == \E r \in Req : Step(r, WarmTurns + MaxCiteTurns, Indexes, Answers, {TRUE})

SpecCite == Init /\ [][NextCite]_vars

\* links: later requests explored over what the links of the blocks meet
NextLinks == \E r \in Req : Step(r, WarmTurns + MaxLinkTurns, LinkIndexes, Answers, {TRUE})

SpecLinks == Init /\ [][NextLinks]_vars

\* progress: later requests explored over external calls that fail or never
\* return.  The event loop runs a handler that can take a step, and a call
\* that returns lets its handler go on.
NextLive ==
    \E r \in Req :
        \/ Step(r, WarmTurns + MaxLiveTurns, {PlainIndex}, {PlainAnswer}, {TRUE})
        \/ \E kind \in HangKinds :
              ~Warm(r) /\ req[r].session_id \in FaultIds /\ Hang(r, kind)

SpecLive == Init /\ [][NextLive]_vars /\ WF_vars(NextLive)

\* ------------------------------------------ append_sources, taken alone
\* The answer of the LLM is a sequence of characters; the word Page is one
\* character of the model and " " stands for the class \s.
MaxGap == 1
MaxSegs == 2

\* characters of the class [A-Z0-9\-_]
IdChars == {"D", "1", "2", "-", "_"}

Spaces(n) == [i \in 1..n |-> " "]

\* citation_key = f"{doc_id}, Page {page}"
CitationKey(doc_id, page) == doc_id \o <<",", " ", "Page", " ">> \o page

\* "(" doc_id "," a blanks "Page" b blanks page ")"
MarkerText(doc_id, a, b, page) ==
    <<"(">> \o doc_id \o <<",">> \o Spaces(a) \o <<"Page">> \o Spaces(b) \o page \o <<")">>

\* the end of the longest run of characters of S that starts at t[j]
RunEnd(t, j, S) ==
    CHOOSE e \in (j - 1)..Len(t) :
        /\ \A x \in j..e : t[x] \in S
        /\ e = Len(t) \/ t[e + 1] \notin S

\* a match of \(([A-Z0-9\-_]+),\s*Page\s+([^\)]+)\) that starts at t[i]
CitationPatternAt(t, i) ==
    LET idEnd == RunEnd(t, i + 1, IdChars)
        pg == RunEnd(t, idEnd + 2, {" "}) + 1
        closes == {c \in (pg + 1)..Len(t) : t[c] = ")"}
        close == CHOOSE c \in closes : \A d \in closes : c <= d
        run == SubSeq(t, pg + 1, close - 1)
        lead == RunEnd(run, 1, {" "})
    IN IF /\ t[i] = "("
          /\ idEnd >= i + 1
          /\ idEnd < Len(t)
          /\ t[idEnd + 1] = ","
          /\ pg <= Len(t)
          /\ t[pg] = "Page"
          /\ closes # {}
          /\ Len(run) >= 2
          /\ run[1] = " "
       THEN [found |-> TRUE,
             doc_id |-> SubSeq(t, i + 1, idEnd),
             page |-> IF lead = Len(run) THEN <<" ">> ELSE SubSeq(run, lead + 1, Len(run)),
             end |-> close]
       ELSE [found |-> FALSE]

\* re.findall(citation_pattern, llm_answer), scanning from t[i]
RECURSIVE FindAll(_, _)
FindAll(t, i) ==
    IF i > Len(t) THEN <<>>
    ELSE LET m == CitationPatternAt(t, i)
         IN IF m.found
            THEN <<[doc_id |-> m.doc_id, page |-> m.page]>> \o FindAll(t, m.end + 1)
            ELSE FindAll(t, i + 1)

\* the citation keys of the matches, in order (chatbot.py:318-319)
CitationKeys(t) ==
    LET m == FindAll(t, 1)
    IN [n \in 1..Len(m) |-> CitationKey(m[n].doc_id, m[n].page)]

MarkerIds == {<<"D", "1">>, <<"d", "1">>}
Pages == {<<"1">>, <<"2">>}

\* the pieces an answer is made of: marker-like groups and a plain word
Segments ==
    {MarkerText(d, a, b, p) : d \in MarkerIds, a \in 0..MaxGap, b \in 0..MaxGap, p \in Pages}
        \cup {<<"x">>}

RECURSIVE Flatten(_)
Flatten(segs) ==
    IF segs = <<>> THEN <<>> ELSE Head(segs) \o Flatten(Tail(segs))

Texts == {Flatten(segs) : segs \in UNION {[1..n -> Segments] : n \in 0..MaxSegs}}

\* doc_metadata when nothing, or every page of document D1, was retrieved
SourceIndexes ==
    {EmptyDict, [k \in {CitationKey(<<"D", "1">>, p) : p \in Pages} |-> "https://s3/doc"]}

InitSources ==
    /\ InitTurns
    /\ call \in {[pc |-> "append_sources", llm_answer |-> t, doc_metadata |-> ix,
                  output |-> NoOutput, citations |-> EmptyDict] :
                     t \in Texts, ix \in SourceIndexes}

\* append_sources(llm_answer) (chatbot.py:301-342)
AppendSourcesCall ==
    /\ call.pc = "append_sources"
    /\ LET answer == CitationKeys(call.llm_answer)
       IN call' = [call EXCEPT !.pc = "returned",
                               !.output = SourcesOutput(answer, call.doc_metadata),
                               !.citations = SourcesCitations(answer, call.doc_metadata)]
    /\ TurnsUnchanged

NextSources == AppendSourcesCall

SpecSources == InitSources /\ [][NextSources]_vars

\* ---------------------------- entity_aware_retrieval: the searches, alone
\* The vector store holds the passages 1..n, numbered by decreasing similarity
\* to the query; the passages 1..tagged carry an entity of the query.
MaxDocs == 17

\* longest list of entities spaCy finds in one query
MaxEnts == 2

\* entities spaCy can find in a query: ent.text, character by character, and
\* ent.label_; LOC is spaCy's label of a location that is no country or city
EntPool ==
    {[text |-> <<"E", "p", "s", "t", "e", "i", "n">>, label |-> "PERSON"],
     [text |-> <<"F", "B", "I">>, label |-> "ORG"],
     [text |-> <<"P", "a", "r", "i", "s", " ">>, label |-> "GPE"],
     [text |-> <<"N", "Y">>, label |-> "GPE"],
     [text |-> <<"A", "l", "p", "s">>, label |-> "LOC"],
     [text |-> <<"M", "a", "y">>, label |-> "DATE"]}

\* doc.ents of the query (chatbot.py:70)
QueryEnts == UNION {[1..n -> EntPool] : n \in 0..MaxEnts}

\* str.lower() on the letters of the entities
UpperLower ==
    {<<"A", "a">>, <<"B", "b">>, <<"E", "e">>, <<"F", "f">>, <<"I", "i">>,
     <<"M", "m">>, <<"N", "n">>, <<"P", "p">>, <<"Y", "y">>}

Lower(c) ==
    IF \E p \in UpperLower : p[1] = c
    THEN (CHOOSE p \in UpperLower : p[1] = c)[2]
    ELSE c

StrLower(text) == [i \in 1..Len(text) |-> Lower(text[i])]

\* str.strip(): the text without the blanks at its two ends
Strip(text) ==
    LET inked == {i \in 1..Len(text) : text[i] # " "}
    IN IF inked = {} THEN <<>>
       ELSE SubSeq(text, CHOOSE i \in inked : \A j \in inked : i <= j,
                         CHOOSE i \in inked : \A j \in inked : i >= j)

ALLOWED_LABELS == {"PERSON", "ORG", "GPE"}

\* extract_entities_from_query (chatbot.py:68-76)
ExtractEntitiesAnyLabel(ents) ==
    LET kept == SelectSeq(ents, LAMBDA e : Len(Strip(e.text)) > 2)
    IN [i \in 1..Len(kept) |-> StrLower(Strip(kept[i].text))]
ExtractEntities(ents) ==
    LET kept == SelectSeq(ents, LAMBDA e : e.label \in ALLOWED_LABELS /\ Len(Strip(e.text)) > 2)
    IN [i \in 1..Len(kept) |-> StrLower(Strip(kept[i].text))]

\* `if query_entities:` (chatbot.py:172)
HasEntitiesAlways(query_entities) == TRUE
HasEntities(query_entities) == query_entities # <<>>

\* num_to_total = 8 + (entity_docs_max - num_entity_matched) (chatbot.py:186)
NumToTotalFixed(num_entity_matched) == PLAIN_DOCS
NumToTotal(num_entity_matched) == GENERAL_DOCS + (ENTITY_DOCS_MAX - num_entity_matched)

FirstK(docs, k) == IF Len(docs) <= k THEN docs ELSE SubSeq(docs, 1, k)

\* vector_db.similarity_search(query, k, filter): the k most similar passages
\* among those that pass the filter
SimilaritySearch(corpus, k, filter) ==
    LET all == [i \in 1..corpus.n |-> i]
    IN FirstK(SelectSeq(all, LAMBDA d : filter.entities = <<>> \/ d <= corpus.tagged), k)

NoFilter == [entities |-> <<>>]

InitSearch ==
    /\ InitTurns
    /\ call \in {[pc |-> "extract", ents |-> e, corpus |-> [n |-> n, tagged |-> t],
                  query_entities |-> <<>>, searches |-> <<>>,
                  entity_matched_docs |-> <<>>, candidates_docs |-> <<>>] :
                     e \in QueryEnts, n \in 0..MaxDocs, t \in 0..MaxDocs}
    /\ call.corpus.tagged <= call.corpus.n

\* query_entities = extract_entities_from_query(query) (chatbot.py:169)
ExtractCall ==
    /\ call.pc = "extract"
    /\ call' = [call EXCEPT !.pc = "search", !.query_entities = ExtractEntities(call.ents)]
    /\ TurnsUnchanged

\* the search filtered by the entities of the query (chatbot.py:172-182)
SearchEntities ==
    /\ call.pc = "search"
    /\ HasEntities(call.query_entities)
    /\ LET filter == [entities |-> call.query_entities]
       IN call' = [call EXCEPT
                     !.pc = "search_general",
                     !.searches = Append(@, [k |-> ENTITY_DOCS_MAX, filter |-> filter]),
                     !.entity_matched_docs =
                         SimilaritySearch(call.corpus, ENTITY_DOCS_MAX, filter)]
    /\ TurnsUnchanged

\* candidates_docs = entity_matched_docs + normal_docs (chatbot.py:194)
CandidatesDeduplicated(entity_matched_docs, normal_docs) ==
    Unique(entity_matched_docs \o normal_docs)
Candidates(entity_matched_docs, normal_docs) == entity_matched_docs \o normal_docs

\* the search without filter that follows it (chatbot.py:185-194)
SearchGeneral ==
    /\ call.pc = "search_general"
    /\ LET k == NumToTotal(Len(call.entity_matched_docs))
       IN call' = [call EXCEPT
                     !.pc = "rerank",
                     !.searches = Append(@, [k |-> k, filter |-> NoFilter]),
                     !.candidates_docs =
                         Candidates(call.entity_matched_docs,
                                    SimilaritySearch(call.corpus, k, NoFilter))]
    /\ TurnsUnchanged

\* no entities in the query (chatbot.py:197-202)
SearchPlain ==
    /\ call.pc = "search"
    /\ ~HasEntities(call.query_entities)
    /\ call' = [call EXCEPT
                  !.pc = "rerank",
                  !.searches = Append(@, [k |-> PLAIN_DOCS, filter |-> NoFilter]),
                  !.candidates_docs = SimilaritySearch(call.corpus, PLAIN_DOCS, NoFilter)]
    /\ TurnsUnchanged

NextSearch == ExtractCall \/ SearchEntities \/ SearchGeneral \/ SearchPlain

SpecSearch == InitSearch /\ [][NextSearch]_vars

\* ----------------------------- entity_aware_retrieval: the reranking, alone
\* The candidates are numbered by their place in candidates_docs;
\* rerank_scores[i] is the score reranker.predict gave to candidate i.
MaxCands == 10
Scores == {1, 2}

\* one step of the stable sort by descending score: x goes behind every pair
\* whose score is not lower
InsertByScoreBeforeTies(pairs, x) ==
    LET p == Cardinality({i \in 1..Len(pairs) : pairs[i].score > x.score})
    IN SubSeq(pairs, 1, p) \o <<x>> \o SubSeq(pairs, p + 1, Len(pairs))
InsertByScore(pairs, x) ==
    LET p == Cardinality({i \in 1..Len(pairs) : pairs[i].score >= x.score})
    IN SubSeq(pairs, 1, p) \o <<x>> \o SubSeq(pairs, p + 1, Len(pairs))

\* sorted(pairs, key=lambda x: x[1], reverse=True) (chatbot.py:211-215)
RECURSIVE SortedByScore(_)
SortedByScore(pairs) ==
    IF pairs = <<>> THEN <<>>
    ELSE InsertByScore(SortedByScore(SubSeq(pairs, 1, Len(pairs) - 1)), pairs[Len(pairs)])

\* final_docs = [doc for doc, score in reranked[:8]] (chatbot.py:218)
Reranked(candidates_docs, rerank_scores) ==
    LET zipped == [i \in 1..Len(candidates_docs) |->
                      [doc |-> candidates_docs[i], score |-> rerank_scores[i]]]
        top == FirstK(SortedByScore(zipped), TOP_DOCS)
    IN [i \in 1..Len(top) |-> top[i].doc]

InitRerank ==
    /\ InitTurns
    /\ call \in {[pc |-> "rerank", candidates_docs |-> [i \in 1..Len(sc) |-> i],
                  rerank_scores |-> sc, final_docs |-> <<>>] :
                     sc \in UNION {[1..n -> Scores] : n \in 0..MaxCands}}

\* the reranking of entity_aware_retrieval (chatbot.py:204-227)
RerankCall ==
    /\ call.pc = "rerank"
    /\ call' = [call EXCEPT !.pc = "returned",
                            !.final_docs = Reranked(call.candidates_docs, call.rerank_scores)]
    /\ TurnsUnchanged

NextRerank == RerankCall

SpecRerank == InitRerank /\ [][NextRerank]_vars

\* ----------------------------------- get_docs: the grouping loop, alone
\* A passage carries the metadata document_id (the stem of its S3 key, any
\* file name) and page_number (a page count of the ingestion, written in
\* decimal digits by the f-string).
MaxGroupDocs == 2

MetaIds == << <<"A">>, <<"A", "1">>, <<"A", "_", "1">> >>
MetaPages == << <<"1">>, <<"2">>, <<"1", "2">> >>

\* the i-th of the nine metadata pairs
Meta(i) ==
    [document_id |-> MetaIds[((i - 1) \div 3) + 1], page_number |-> MetaPages[((i - 1) % 3) + 1]]

\* final_docs: short lists of any passages, and lists of 8 passages of which
\* some are of the document page of the first
GroupInputs ==
    UNION {[1..n -> {Meta(i) : i \in 1..9}] : n \in 0..MaxGroupDocs}
        \cup {[i \in 1..TOP_DOCS |-> IF i \in S THEN Meta(1) ELSE Meta(i)] :
                  S \in SUBSET (2..TOP_DOCS)}

\* doc_page_id = f"{doc_id}_{page_num}" (chatbot.py:250)
DocPageIdGlued(doc) == doc.document_id \o doc.page_number
DocPageId(doc) == doc.document_id \o <<"_">> \o doc.page_number

\* doc_groups and the blocks rendered from it, in the insertion order of the
\* dict (chatbot.py:246-292): number, metadata of the first chunk, chunks
DocBlocks(docs) ==
    LET keys == Unique([i \in 1..Len(docs) |-> DocPageId(docs[i])])
        members(k) == SelectSeq([i \in 1..Len(docs) |-> i], LAMBDA i : DocPageId(docs[i]) = k)
    IN [b \in 1..Len(keys) |->
           [number |-> b,
            document_id |-> docs[members(keys[b])[1]].document_id,
            page |-> docs[members(keys[b])[1]].page_number,
            chunks |-> members(keys[b])]]

\* metadata 'source' of a passage: two files of one name, ingested from two
\* collections, give passages of one document page with different sources
MetaSources == {"House Oversight", "Court Records"}

\* first_chunk = chunks[0] (chatbot.py:264)
LastChunk(chunks) == chunks[Len(chunks)]
FirstChunk(chunks) == chunks[1]

\* citation_key = f"{doc_id}, Page {page}" (chatbot.py:271)
DocCitationKey(doc) == doc.document_id \o <<", Page ">> \o doc.page_number

\* the 'Source:' line of each block (chatbot.py:282)
BlockSources(docs, sources) ==
    LET blocks == DocBlocks(docs)
    IN [b \in 1..Len(blocks) |-> sources[FirstChunk(blocks[b].chunks)]]

\* the entries get_docs writes into doc_metadata, a later one over an earlier
\* one of the same key (chatbot.py:271-278)
GroupMetadata(docs, sources) ==
    LET blocks == DocBlocks(docs)
        first(b) == FirstChunk(blocks[b].chunks)
        keys == {DocCitationKey(docs[first(b)]) : b \in 1..Len(blocks)}
        last(k) == CHOOSE b \in 1..Len(blocks) :
                       /\ DocCitationKey(docs[first(b)]) = k
                       /\ \A c \in 1..Len(blocks) :
                             DocCitationKey(docs[first(c)]) = k => c <= b
    IN [k \in keys |->
           [source |-> sources[first(last(k))],
            document_id |-> docs[first(last(k))].document_id,
            page |-> docs[first(last(k))].page_number]]

InitGroup ==
    /\ InitTurns
    /\ \E d \in GroupInputs :
          \E s \in [1..Len(d) -> MetaSources] :
              call = [pc |-> "group", docs |-> d, sources |-> s, doc_data |-> <<>>,
                      block_sources |-> <<>>, doc_metadata |-> <<>>]

\* the grouping of get_docs (chatbot.py:245-295)
GroupCall ==
    /\ call.pc = "group"
    /\ call' = [call EXCEPT !.pc = "returned",
                            !.doc_data = DocBlocks(call.docs),
                            !.block_sources = BlockSources(call.docs, call.sources),
                            !.doc_metadata = GroupMetadata(call.docs, call.sources)]
    /\ TurnsUnchanged

NextGroup == GroupCall

SpecGroup == InitGroup /\ [][NextGroup]_vars

\* ------------------------------------------------------------------- claims
\* r has its history and has not yet added its messages
Holding(r) == req[r].pc \in {"get_docs", "retrieve", "generate", "append_sources",
                             "exit_history"}

\* r is inside the eviction loop or about to create its session
Evicting(r) == req[r].pc \in {"gsh_while", "gsh_del", "gsh_fetch"}

\* the messages of the history object r was given, while it is in the store
Stored(r) ==
    LET at == {i \in 1..Len(message_store) : message_store[i].born = req[r].history}
    IN IF at = {} THEN <<"gone">> ELSE message_store[CHOOSE i \in at : TRUE].messages

LastOf(s, n) == IF Len(s) <= n THEN s ELSE SubSeq(s, Len(s) - n + 1, Len(s))

\* C1: in every reachable state the store holds at most 50 sessions
C1_SessionCap == Len(message_store) <= MAX_SESSIONS

C1_Witness == Len(message_store) = MAX_SESSIONS /\ Len(evicted) >= 2

\* C2: sessions are evicted in creation order, each eviction removes the
\* session created earliest among those stored (whatever was used last), and
\* once N > 50 distinct ids have been used one after the other exactly N - 50
\* evictions have occurred; after 51 ids, one eviction, of the first session
C2_CreationOrderEviction ==
    /\ \A i \in 1..Len(evicted) :
          /\ \A j \in 1..Len(message_store) : message_store[j].born > evicted[i].born
          /\ \A j \in 1..Len(evicted) : i < j => evicted[i].born < evicted[j].born
    /\ (created = used /\ \A r \in Req : ~Evicting(r) /\ req[r].pc # "pending") =>
          /\ Len(evicted) = Max(0, used - MAX_SESSIONS)
          /\ used = MAX_SESSIONS + 1 => evicted[1].born = 1

C2_Witness ==
    /\ created = used
    /\ used = MAX_SESSIONS + 2
    /\ \A r \in Req : ~InFlight(r)
    /\ Len(evicted) = 2
    /\ evicted[1].born = 1
    /\ evicted[1].mru

\* C3: once 3 or more exchanges have been added to a session, a fetch of its
\* history returns exactly the last 4 entries, in their order
C3_FetchLastFour ==
    \A r \in Req :
        (req[r].pc = "get_docs" /\ Len(log[req[r].session_id]) >= 6) =>
            req[r].chat_history =
                SubSeq(log[req[r].session_id], Len(log[req[r].session_id]) - 3,
                       Len(log[req[r].session_id]))

C3_Witness ==
    \E r \in Req : req[r].pc = "get_docs" /\ Len(log[req[r].session_id]) >= 6

\* C4 as claimed: after every append the stored history of a session has at
\* most 4 entries
C4_StoredAtMostFour ==
    \A i \in 1..Len(message_store) : Len(message_store[i].messages) <= HISTORY_KEEP

\* C4 amended: a stored history has at most 6 entries (the 4 the last fetch
\* kept and the 2 added since), and at most 4 from a fetch until the turn adds
\* its messages
C4_StoredAtMostSix ==
    /\ \A i \in 1..Len(message_store) :
          Len(message_store[i].messages) <= HISTORY_KEEP + 2
    /\ \A r \in Req : Holding(r) => Len(Stored(r)) <= HISTORY_KEEP

C4_Witness ==
    \E i \in 1..Len(message_store) : Len(message_store[i].messages) = HISTORY_KEEP + 2

\* C5: a turn in which a fatal step fails ends as an error to the caller and
\* has added no entry to the history of its session
C5_FailedTurnAddsNothing ==
    \A r \in Req :
        (req[r].pc = "failed" /\ req[r].error \in ErrorKinds) =>
            /\ req[r].status = 500
            /\ Stored(r) = req[r].chat_history
            /\ LastOf(log[req[r].session_id], HISTORY_KEEP) = req[r].chat_history

C5_Witness ==
    \E r \in Req :
        /\ req[r].pc = "failed"
        /\ req[r].error = "Generation"
        /\ req[r].chat_history # <<>>

\* C6: eviction and insertion of a new session act as one unit: a turn that
\* creates the b-th session, b > 50, has evicted exactly the (b - 50)-th, its
\* session is in the store and the store holds 50 sessions
C6_EvictInsertAtomic ==
    \A r \in Req :
        (req[r].made /\ req[r].history > MAX_SESSIONS) =>
            /\ req[r].deleted = <<req[r].history - MAX_SESSIONS>>
            /\ Stored(r) # <<"gone">>
            /\ Len(message_store) = MAX_SESSIONS

\* two requests for unseen ids in flight together against a full store, both ended
C6_Witness ==
    \E r \in Req :
        /\ req[r].pc = "done"
        /\ req[r].made
        /\ req[r].history = MAX_SESSIONS + 2
        /\ \E n \in req[r].overlap :
              /\ evicted[Len(evicted) - 1].by = n
              /\ evicted[Len(evicted)].by = req[r].input
        /\ message_store[Len(message_store) - 1].born = MAX_SESSIONS + 1
        /\ message_store[Len(message_store)].born = MAX_SESSIONS + 2
        /\ Len(evicted) = 2

\* C7: the two entries added by a completed turn are returned by the next
\* fetch for the same session id, unless the session was evicted since
C7_NoLostUpdate ==
    \A r \in Req :
        (req[r].pc = "get_docs" /\ log[req[r].session_id] # <<>>) =>
            LastOf(req[r].chat_history, 2) = LastOf(log[req[r].session_id], 2)

C7_Witness ==
    \E r \in Req :
        /\ req[r].pc = "get_docs"
        /\ log[req[r].session_id] # <<>>
        /\ \E q \in Req : InFlight(q) /\ req[q].session_id # req[r].session_id
        /\ req[r].overlap # {}

\* C8: no turn ends in an error raised by the session store
C8_NoStoreError == \A r \in Req : req[r].pc = "failed" => req[r].error \in ErrorKinds

\* two requests in flight together, both had to evict, and the later one succeeded
C8_Witness ==
    \E r \in Req :
        /\ req[r].pc = "done"
        /\ req[r].status = 200
        /\ req[r].deleted # <<>>
        /\ \E i \in 1..Len(evicted) : evicted[i].by \in req[r].overlap

\* C9: from the fetch of its history until it adds its messages a turn sees
\* the stored history of its session unchanged, and after adding them the
\* stored history is what it fetched followed by its (user, assistant) pair
C9_SessionTurnsSerialized ==
    \A r \in Req :
        /\ Holding(r) => Stored(r) = req[r].chat_history
        /\ req[r].pc \in {"respond", "done"} =>
              Stored(r) = req[r].chat_history
                            \o <<Human(req[r].input), AI(req[r].output)>>

\* two requests for one session in flight together: the later one fetched the
\* exchange of the earlier one
C9_Witness ==
    \E r \in Req :
        /\ req[r].pc = "done"
        /\ Len(req[r].chat_history) >= 2
        /\ \E n \in req[r].overlap :
              req[r].chat_history[Len(req[r].chat_history) - 1] = Human(n)

\* C10: the citations returned for a turn hold only keys of markers of that
\* turn's answer, resolved against that turn's retrieved context
C10_CitationsOfThisTurn ==
    \A r \in Req :
        req[r].pc = "done" =>
            \A k \in DOMAIN req[r].citations :
                /\ k \in Range(req[r].answer)
                /\ k \in DOMAIN req[r].context
                /\ req[r].citations[k] = req[r].context[k]

C10_Witness ==
    \E r \in Req :
        /\ req[r].pc = "done"
        /\ DOMAIN req[r].citations # {}
        /\ req[r].overlap # {}
        /\ req[r].chat_history # <<>>
        /\ req[r].chat_history[Len(req[r].chat_history)].output.sources # <<>>

\* C11: a key is in the citations returned for a turn only if the answer of
\* that turn holds a marker with that key; the key of a passage that was
\* retrieved but not cited is not in them
C11_OnlyCitedKeys ==
    \A r \in Req :
        req[r].pc = "done" =>
            /\ DOMAIN req[r].citations \subseteq Range(req[r].answer)
            /\ \A k \in DOMAIN req[r].context :
                  k \notin Range(req[r].answer) => k \notin DOMAIN req[r].citations

\* a passage was retrieved, the answer cites another key, nothing is returned
C11_Witness ==
    \E r \in Req :
        /\ req[r].pc = "done"
        /\ req[r].answer # <<>>
        /\ \E k \in DOMAIN req[r].context : k \notin Range(req[r].answer)
        /\ req[r].citations = EmptyDict

\* u occurs in t
Contains(t, u) == \E i \in 0..(Len(t) - Len(u)) : SubSeq(t, i + 1, i + Len(u)) = u

\* the keys append_sources listed in the Sources section or in the citations
Listed == Range(call.output.sources) \cup DOMAIN call.citations

NoKeyTwice ==
    \A i, j \in 1..Len(call.output.sources) :
        call.output.sources[i] = call.output.sources[j] => i = j

\* C12 as claimed: every key listed by append_sources stands in the answer
\* verbatim as "(ID, Page X)", and no key is listed twice
C12_ListedKeyVerbatim ==
    call.pc = "returned" =>
        /\ \A k \in Listed : Contains(call.llm_answer, <<"(">> \o k \o <<")">>)
        /\ NoKeyTwice

\* C12 amended: every key listed by append_sources is the key "ID, Page X" of
\* a marker "(ID," blanks "Page" blanks "X)" of the answer, with any number of
\* blanks after the comma and at least one after Page, and no key is listed
\* twice
C12_ListedKeyOfMarker ==
    call.pc = "returned" =>
        /\ \A k \in Listed :
              \E d \in MarkerIds, p \in Pages, a \in 0..MaxGap, b \in 1..MaxGap :
                  /\ k = CitationKey(d, p)
                  /\ Contains(call.llm_answer, MarkerText(d, a, b, p))
        /\ NoKeyTwice

\* the answer holds the same marker twice, written in two ways, listed once
C12_Witness ==
    /\ call.pc = "returned"
    /\ Len(call.output.text) = 2
    /\ call.output.text[1] = call.output.text[2]
    /\ Len(call.output.sources) = 1
    /\ ~Contains(call.llm_answer, <<"x">>)
    /\ \E k \in Listed : ~Contains(call.llm_answer, <<"(">> \o k \o <<")">> \o <<"(">> \o k \o <<")">>)

\* C13: a marker of the answer whose key is not in the index of the turn is
\* dropped: the key is neither in the Sources section nor in the citations
\* returned, and the turn does not fail
C13_UnknownMarkerDropped ==
    \A r \in Req :
        \A k \in Range(req[r].answer) :
            k \notin DOMAIN req[r].context =>
                /\ req[r].pc # "failed"
                /\ k \notin Range(req[r].output.sources)
                /\ req[r].pc = "done" =>
                      req[r].status = 200 /\ k \notin DOMAIN req[r].citations

\* the answer cites a document that was never retrieved, beside retrieved ones
C13_Witness ==
    \E r \in Req :
        /\ req[r].pc = "done"
        /\ req[r].output.section
        /\ DOMAIN req[r].context # {}
        /\ \E k \in Range(req[r].answer) : k \notin DOMAIN req[r].context

\* C14: when the query has no entity, exactly one similarity search is made,
\* without filter and with k = 16
C14_PlainSearchOnce ==
    (call.pc = "rerank" /\ call.query_entities = <<>>) =>
        call.searches = <<[k |-> PLAIN_DOCS, filter |-> NoFilter]>>

\* no entity passes the extraction and the store returns 16 passages
C14_Witness ==
    /\ call.pc = "rerank"
    /\ call.ents # <<>>
    /\ call.query_entities = <<>>
    /\ Len(call.candidates_docs) = PLAIN_DOCS
    /\ call.corpus.n > PLAIN_DOCS

BlocksOf(i) == {b \in 1..Len(call.doc_data) : i \in Range(call.doc_data[b].chunks)}

\* C17: the context has at most 8 blocks and exactly one block for each
\* distinct (document_id, page_number) of the passages: two passages are in
\* the same block if and only if they agree on both
C17_OneBlockPerDocumentPage ==
    call.pc = "returned" =>
        /\ Len(call.doc_data) <= TOP_DOCS
        /\ Len(call.doc_data) = Cardinality(Range(call.docs))
        /\ \A i \in 1..Len(call.docs) : Cardinality(BlocksOf(i)) = 1
        /\ \A i, j \in 1..Len(call.docs) :
              BlocksOf(i) = BlocksOf(j) <=> call.docs[i] = call.docs[j]

\* 8 passages of 4 document pages, five of them of one page
C17_Witness ==
    /\ call.pc = "returned"
    /\ Len(call.docs) = TOP_DOCS
    /\ Len(call.doc_data) = 4
    /\ \E b \in 1..Len(call.doc_data) : Len(call.doc_data[b].chunks) = 5

\* C18: a link that cannot be resolved (no key, no client, a presign call
\* that raises) does not abort the turn: the block and the citation get "N/A"
C18_LinkFailureNotFatal ==
    \A r \in Req :
        \A k \in DOMAIN req[r].links :
            req[r].links[k] # "ok" =>
                /\ req[r].error # "LinkResolution"
                /\ k \in DOMAIN req[r].context
                /\ req[r].context[k] = "N/A"
                /\ (req[r].pc = "done" /\ k \in Range(req[r].answer)) =>
                      /\ req[r].status = 200
                      /\ k \in DOMAIN req[r].citations
                      /\ req[r].citations[k] = "N/A"

\* the presign call raised for a block that the answer cites
C18_Witness ==
    \E r \in Req :
        /\ req[r].pc = "done"
        /\ \E k \in DOMAIN req[r].links :
              /\ req[r].links[k] = "raises"
              /\ k \in DOMAIN req[r].citations
              /\ req[r].output.sources = <<k>>

\* r is past the reformulation step of get_docs
Reformulated(r) == req[r].pc \in {"retrieve", "generate", "append_sources",
                                  "exit_history", "respond", "done"}

\* C19: the reformulation call is made if and only if the fetched history is
\* not empty; with an empty history the query used for retrieval is the
\* query of the caller and no reformulation call is made
C19_ReformulateIffHistory ==
    \A r \in Req :
        /\ Reformulated(r) =>
              /\ "reformulation" \in Range(req[r].steps) <=> req[r].chat_history # <<>>
              /\ req[r].rewritten <=> req[r].chat_history # <<>>
        /\ req[r].error = "Reformulation" => req[r].chat_history # <<>>

\* the first turn of a session created after others had turns with history:
\* it ended without a reformulation, after five steps
C19_Witness ==
    \E r \in Req :
        /\ req[r].pc = "done"
        /\ req[r].made
        /\ ~Warm(r)
        /\ ~req[r].rewritten
        /\ Len(req[r].steps) = 5
        /\ \E i \in 1..Len(message_store) : Len(message_store[i].messages) > 2

\* the steps of a turn with history, and of one without
StepOrder(chat_history) ==
    <<"history_fetch">>
        \o (IF chat_history # <<>> THEN <<"reformulation">> ELSE <<>>)
        \o <<"retrieval", "generation", "citation_extraction", "history_append">>

\* C20: the steps of a turn finish in the order history fetch, reformulation,
\* retrieval, generation, citation extraction, history append, and the
\* history is appended only after the citation extraction: the stored
\* assistant entry is its output
C20_StepOrder ==
    \A r \in Req :
        /\ Len(req[r].steps) <= Len(StepOrder(req[r].chat_history))
        /\ req[r].steps = SubSeq(StepOrder(req[r].chat_history), 1, Len(req[r].steps))
        /\ req[r].pc \in {"respond", "done"} =>
              /\ Len(req[r].steps) = Len(StepOrder(req[r].chat_history))
              /\ Stored(r)[Len(Stored(r))] =
                    AI(SourcesOutput(req[r].answer, req[r].context))

\* a turn with history went through all six steps and its answer has sources
C20_Witness ==
    \E r \in Req :
        /\ req[r].pc = "done"
        /\ Len(req[r].steps) = 6
        /\ req[r].output.sources # <<>>
        /\ ~Warm(r)

\* C21: a successful turn adds exactly two entries to the history of its
\* session: the user entry with the message of the caller (not the
\* reformulated question) and the assistant entry with the answer, in the
\* same form in every turn (the output of append_sources); the caller gets
\* that output and the citations
C21_TwoEntriesOriginalQuery ==
    /\ \A r \in Req :
          req[r].pc \in {"respond", "done"} =>
              /\ Len(Stored(r)) = Len(req[r].chat_history) + 2
              /\ Stored(r)[Len(Stored(r)) - 1] = Human(req[r].input)
              /\ Stored(r)[Len(Stored(r))] = AI(req[r].output)
              /\ req[r].pc = "done" =>
                    /\ req[r].returned = SourcesOutput(req[r].answer, req[r].context)
                    /\ req[r].citations = SourcesCitations(req[r].answer, req[r].context)
    /\ \A i \in 1..Len(message_store) :
          \A j \in 1..Len(message_store[i].messages) :
              LET m == message_store[i].messages[j]
              IN IF j % 2 = 1
                 THEN m.role = "human" /\ m.input > 0
                 ELSE m.role = "ai" /\ (m.output.section <=> m.output.text # <<>>)

\* a turn with history ended whose question was rewritten to another text
C21_Witness ==
    \E r \in Req :
        /\ req[r].pc = "done"
        /\ req[r].question # req[r].input
        /\ req[r].returned.section
        /\ Len(Stored(r)) = Len(req[r].chat_history) + 2

\* r is past the answering LLM call
Generated(r) == req[r].pc \in {"append_sources", "exit_history", "respond", "done"}

\* C22 as claimed: in a turn with history the query handed to the answering
\* call is the reformulated question, the one the retrieval ran on
C22_GeneratorGetsReformulated ==
    \A r \in Req :
        (Generated(r) /\ req[r].chat_history # <<>>) => req[r].asked = req[r].question

\* C22 amended: in a turn with history the query handed to the answering call
\* is the message of the caller, next to the history; the reformulated
\* question, the output of the reformulation call, is what the retrieval ran on
C22_GeneratorGetsOriginal ==
    \A r \in Req :
        (Generated(r) /\ req[r].chat_history # <<>>) =>
            /\ req[r].asked = req[r].input
            /\ req[r].rewritten
            /\ req[r].question \in {Contextualized(req[r].input, o) : o \in BOOLEAN}

\* the reformulation returned another text and the answer was generated
C22_Witness ==
    \E r \in Req :
        /\ req[r].pc = "done"
        /\ req[r].chat_history # <<>>
        /\ req[r].question # req[r].input
        /\ req[r].asked # req[r].question

\* C23 as claimed: every turn eventually ends, in a response or in a reported
\* error, also when an external call never returns
C23_TurnEventuallyEnds ==
    \A r \in Req : (req[r].pc = "pending") ~> (req[r].pc \in {"done", "failed"})
\* C24 as claimed: the extractor returns exactly the lowercased texts of the
\* entities whose label is PERSON, ORG or LOCATION and whose text is longer
\* than 2 characters, and nothing for a query without entities
C24_LabelsPersonOrgLocation ==
    call.pc # "extract" =>
        /\ Range(call.query_entities) =
              {StrLower(call.ents[i].text) :
                  i \in {j \in 1..Len(call.ents) :
                            /\ call.ents[j].label \in {"PERSON", "ORG", "LOCATION"}
                            /\ Len(call.ents[j].text) > 2}}
        /\ call.ents = <<>> => call.query_entities = <<>>

\* C24: the extractor returns, in the order of the query and with repetitions,
\* the stripped and lowercased texts of the entities whose label is PERSON, ORG
\* or GPE and whose stripped text is longer than 2 characters, and nothing for
\* a query without entities
C24_LabelsPersonOrgGpe ==
    call.pc # "extract" =>
        LET kept == {i \in 1..Len(call.ents) :
                        /\ call.ents[i].label \in {"PERSON", "ORG", "GPE"}
                        /\ Len(Strip(call.ents[i].text)) > 2}
            Place(i) == Cardinality({j \in kept : j <= i})
        IN /\ Len(call.query_entities) = Cardinality(kept)
           /\ \A i \in kept :
                 call.query_entities[Place(i)] = StrLower(Strip(call.ents[i].text))
           /\ call.ents = <<>> => call.query_entities = <<>>

\* a city with a blank at its end is kept, stripped and lowercased, and a
\* location that is no city is dropped
C24_Witness ==
    /\ call.pc = "search"
    /\ Len(call.ents) = 2
    /\ call.ents[1].label = "LOC"
    /\ call.ents[2].label = "GPE"
    /\ call.query_entities = <<<<"p", "a", "r", "i", "s">>>>

\* C25: for a query with entities the candidates handed to the reranker are
\* the entity-filtered results followed by the general results, each in the
\* order of the store, and a passage that both searches returned is there twice
C25_EntityResultsThenGeneral ==
    (call.pc = "rerank" /\ call.query_entities # <<>>) =>
        LET docs == call.candidates_docs
            n == Len(call.entity_matched_docs)
            general == SubSeq(docs, n + 1, Len(docs))
        IN /\ n <= Len(docs)
           /\ SubSeq(docs, 1, n) = call.entity_matched_docs
           /\ \A i \in 1..n : docs[i] <= call.corpus.tagged
           /\ \A i, j \in 1..n : i < j => docs[i] < docs[j]
           /\ Len(general) = IF call.corpus.n <= call.searches[2].k
                              THEN call.corpus.n ELSE call.searches[2].k
           /\ \A i \in 1..Len(general) : general[i] = i
           /\ \A d \in Range(call.entity_matched_docs) \cap Range(general) :
                 Cardinality({i \in 1..Len(docs) : docs[i] = d}) = 2

\* the two most similar passages carry the entity: they come first and then
\* again at the head of the general results
C25_Witness ==
    /\ call.pc = "rerank"
    /\ call.query_entities # <<>>
    /\ call.corpus.tagged = 2
    /\ Len(call.candidates_docs) > 4
    /\ SubSeq(call.candidates_docs, 1, 4) = <<1, 2, 1, 2>>

\* C26: the document blocks come in the order of the first passage of each
\* group in the reranked list and are numbered 1, 2, ... without gaps; a block
\* holds the passages of its group in their reranked order, and its metadata
\* and its entry of the citation index are those of the first passage
C26_BlocksInFirstMemberOrder ==
    call.pc = "returned" =>
        LET blocks == call.doc_data
            first(b) == blocks[b].chunks[1]
        IN /\ \A b \in 1..Len(blocks) :
                 /\ blocks[b].number = b
                 /\ blocks[b].chunks # <<>>
                 /\ \A i, j \in 1..Len(blocks[b].chunks) :
                       i < j => blocks[b].chunks[i] < blocks[b].chunks[j]
                 /\ Range(blocks[b].chunks) =
                       {i \in 1..Len(call.docs) : call.docs[i] = call.docs[first(b)]}
                 /\ blocks[b].document_id = call.docs[first(b)].document_id
                 /\ blocks[b].page = call.docs[first(b)].page_number
                 /\ call.block_sources[b] = call.sources[first(b)]
                 /\ DocCitationKey(call.docs[first(b)]) \in DOMAIN call.doc_metadata
                 /\ call.doc_metadata[DocCitationKey(call.docs[first(b)])] =
                       [source |-> call.sources[first(b)],
                        document_id |-> call.docs[first(b)].document_id,
                        page |-> call.docs[first(b)].page_number]
           /\ \A b, c \in 1..Len(blocks) : b < c => first(b) < first(c)
           /\ Len(call.block_sources) = Len(blocks)

\* the first block has a passage that comes after the first passage of the
\* second block, and its passages are of different sources
C26_Witness ==
    /\ call.pc = "returned"
    /\ Len(call.doc_data) >= 3
    /\ Len(call.doc_data[1].chunks) >= 2
    /\ call.doc_data[1].chunks[2] > call.doc_data[2].chunks[1]
    /\ call.sources[call.doc_data[1].chunks[1]] # call.sources[call.doc_data[1].chunks[2]]

\* C27 as claimed: a turn that fails leaves the set of stored sessions as it
\* was: it has created no session and evicted none
C27_FailedTurnKeepsSessions ==
    \A r \in Req :
        (req[r].pc = "failed" /\ req[r].error \in ErrorKinds) =>
            /\ ~req[r].made
            /\ req[r].deleted = <<>>

\* C28: a fetch for a session id that is in the store removes no session and
\* adds none, also when the store holds 50 sessions; a session is removed only
\* by a request for an id that is not in the store while the store holds 50
\* sessions, and such a request, run alone, removes exactly one
C28_EvictOnlyForUnseenAtCapacity ==
    [][\A r \in Req :
          (Evicting(r) /\ req'[r].pc # req[r].pc) =>
              LET before == StoreKeys(message_store)
                  after == StoreKeys(message_store')
                  seen == req[r].session_id \in before
              IN /\ seen => after = before
                 /\ before \ after # {} =>
                       /\ ~seen
                       /\ Len(message_store) = MAX_SESSIONS
                       /\ Cardinality(before \ after) = 1
                 /\ after \ before # {} => ~seen /\ after \ before = {req[r].session_id}
                 /\ req[r].pc = "gsh_while" =>
                       (req'[r].pc = "gsh_del" <=>
                           /\ ~seen
                           /\ Len(message_store) = MAX_SESSIONS
                           /\ req[r].deleted = <<>>)
                 /\ Len(req'[r].deleted) <= 1]_vars

\* a request after the warm-up finds its session among the 50 of the store,
\* after another request has evicted one
C28_Witness ==
    \E r \in Req :
        /\ req[r].pc = "get_docs"
        /\ ~Warm(r)
        /\ ~req[r].made
        /\ req[r].deleted = <<>>
        /\ Len(message_store) = MAX_SESSIONS
        /\ evicted # <<>>

\* C29: the history given to the reformulation call and to the generation
\* call of a turn has at most 4 entries: the last 4, or all when there are
\* fewer, of the entries the earlier turns of the session added, in order
C29_CallsGetLastFourCommitted ==
    \A r \in Req :
        LET committed == LastOf(log[req[r].session_id], HISTORY_KEEP)
        IN /\ (Holding(r) /\ req[r].rewritten) =>
                 /\ Len(req[r].reformulated_on) <= HISTORY_KEEP
                 /\ req[r].reformulated_on = committed
           /\ req[r].pc \in {"append_sources", "exit_history"} =>
                 /\ Len(req[r].answered_on) <= HISTORY_KEEP
                 /\ req[r].answered_on = committed
           /\ (req[r].pc \in {"retrieve", "generate"} /\ ~req[r].rewritten) =>
                 committed = <<>>

\* the fourth turn of a session: six entries were added, the reformulation
\* and the generation got the last four
C29_Witness ==
    \E r \in Req :
        /\ req[r].pc = "append_sources"
        /\ Len(log[req[r].session_id]) = 6
        /\ req[r].rewritten
        /\ Len(req[r].reformulated_on) = HISTORY_KEEP
        /\ Len(req[r].answered_on) = HISTORY_KEEP
        /\ req[r].answered_on[1] = log[req[r].session_id][3]

\* C30: an answer without citation marker is returned as it is, without
\* Sources section, and the citations returned with it are empty whatever the
\* earlier turns cited; the citations returned for a turn are those of its own
\* markers and passages, none of an earlier turn
C30_NoMarkerNoCarryOver ==
    \A r \in Req :
        req[r].pc = "done" =>
            /\ req[r].answer = <<>> =>
                  /\ req[r].returned = [text |-> <<>>, sources |-> <<>>, section |-> FALSE]
                  /\ req[r].citations = EmptyDict
            /\ DOMAIN req[r].citations = Range(req[r].answer) \cap DOMAIN req[r].context

\* the turn before, of the same session, cited a passage; this turn retrieves
\* that passage again and its answer has no marker
C30_Witness ==
    \E r \in Req :
        /\ req[r].pc = "done"
        /\ req[r].answer = <<>>
        /\ DOMAIN req[r].context # {}
        /\ req[r].citations = EmptyDict
        /\ req[r].chat_history # <<>>
        /\ req[r].chat_history[Len(req[r].chat_history)].output.sources # <<>>

====
